---------------------------- MODULE Spec2Model ----------------------------
(***************************************************************************)
(* The game-session state machine, the bid book, the plant ledger, the     *)
(* fuel-price and demand queries and the market clearing of the            *)
(* electricity market game API (src/market_game_api.py, src/startup.py).   *)
(*                                                                         *)
(* The database tables are the state: users, game_sessions, power_plants,  *)
(* yearly_bids and market_results.  Every request handler is one action; a *)
(* handler runs in                                                         *)
(* one database transaction, so an action is the whole handler up to its   *)
(* commit or its HTTPException.  `response' holds the request that was     *)
(* served last and what it returned.  `closed' and `accepted' are history  *)
(* variables: they record what has happened and no handler reads them.     *)
(* The timestamp column of a bid is not modelled.  Money is in dollars;    *)
(* prices and demands that the code computes in floating point are exact   *)
(* fractions <<numerator, denominator>> in lowest terms.                   *)
(***************************************************************************)
EXTENDS Integers, FiniteSets, Sequences, TLC

VARIABLES
    sessions,   \* game_sessions: session id -> row
    plants,     \* power_plants: set of rows
    bids,       \* yearly_bids: set of rows
    users,      \* users: user id -> row (budget, debt, equity)
    results,    \* market_results: set of rows
    response,   \* the last request served and its outcome
    closed,     \* history: <<session id, year>> whose bidding was closed
    accepted,   \* history: <<session id, plant id, year>> -> values last accepted
    inflight    \* request -> what a handler that has read but not yet
                \* committed holds in its own database session

vars ==
    <<sessions, plants, bids, users, results, response, closed, accepted,
      inflight>>

(***************************************************************************)
(* Bounds of the model.                                                    *)
(***************************************************************************)
\* Last simulated year of the session (the sample session ends in 2035).
EndYear == 2026
\* Rows the yearly_bids table may hold before inserts are cut off.  The two
\* plants and two bid years give four keys, so the cut-off is never met while
\* there is one row per key.
MaxBids == 4

(***************************************************************************)
(* Program constants.                                                      *)
(***************************************************************************)
StartYear == 2025
\* users.budget and users.equity column defaults: $1B
DefaultBudget == 1000000000
DefaultEquity == 1000000000
KwPerMw == 1000
\* "current_year = 2025  # TODO: Get from game session" in create_power_plant
CreationYear == 2025
HTTP_OK == 200
HTTP_BAD_REQUEST == 400
HTTP_NOT_FOUND == 404

GameStateEnum ==
    {"setup", "year_planning", "bidding_open", "market_clearing",
     "year_complete", "game_complete"}

PlantStatusEnum ==
    {"operating", "under_construction", "maintenance", "retired", "planned"}

PlantTypeEnum ==
    {"coal", "natural_gas_cc", "natural_gas_ct", "nuclear", "solar",
     "wind_onshore", "wind_offshore", "battery", "hydro", "biomass"}

LoadPeriodEnum == {"off_peak", "shoulder", "peak"}

(***************************************************************************)
(* Exact arithmetic for what the code computes in floating point.          *)
(***************************************************************************)
RECURSIVE GCD(_, _)
GCD(a, b) == IF b = 0 THEN a ELSE GCD(b, a % b)

\* n/d in lowest terms, for n >= 0 and d > 0.
Fraction(n, d) == LET g == GCD(n, d) IN <<n \div g, d \div g>>

Whole(n) == <<n, 1>>

\* x * y for fractions in lowest terms, reducing across before multiplying.
Times(x, y) ==
    LET g == GCD(x[1], y[2])
        h == GCD(y[1], x[2])
    IN  <<(x[1] \div g) * (y[1] \div h), (x[2] \div h) * (y[2] \div g)>>

RECURSIVE Power(_, _)
Power(b, n) == IF n = 0 THEN 1 ELSE b * Power(b, n - 1)

(***************************************************************************)
(* Request inputs.                                                         *)
(***************************************************************************)
GameId == "sample_game_1"
SessionIds == {GameId, "no_such_game"}
UtilityIds == {"utility_1", "utility_2"}
PlantIds == {"plant_1", "plant_2"}
RequestPlantIds == PlantIds \cup {"no_such_plant"}
RequestStates == GameStateEnum \cup {"not_a_state"}
BidYears == {2025, 2026}

\* The six numbers of a bid: <<off_peak_quantity, shoulder_quantity,
\* peak_quantity, off_peak_price, shoulder_price, peak_price>>.
BidValues ==
    { <<100, 100, 100, 40, 50, 60>>,
      <<-50, 90, 0, 45, 0, -5>> }

\* YearlyBidCreate: a pydantic model with one str, one int and six floats and
\* no validator, so it admits every number, negative ones included.
YearlyBidCreate ==
    [plant_id : RequestPlantIds, year : BidYears, values : BidValues]

NoBid == <<>>

\* The requests that can be in progress at the same time: the handlers are
\* plain functions, which the server runs on a thread pool, each with the
\* database session that get_db gives it.
Requests == {"request_1", "request_2"}
Idle == [pc |-> "idle"]
None == "none"

(***************************************************************************)
(* Rows.                                                                   *)
(***************************************************************************)
\* PLANT_TEMPLATES of electricity_market_backend, for the two technologies the
\* model builds: the overnight cost in $/kW and the fuel the plant burns.
PLANT_TEMPLATES ==
    [t \in {"solar", "natural_gas_ct"} |->
        IF t = "solar"
        THEN [overnight_cost_per_kw |-> 1000, fuel_type |-> None]
        ELSE [overnight_cost_per_kw |-> 800, fuel_type |-> "natural_gas"]]

\* PowerPlantCreate: the request body of create_power_plant.
PlantRequest(plant_type, capacity_mw, start, commissioning, retirement) ==
    [plant_type |-> plant_type,
     capacity_mw |-> capacity_mw,
     construction_start_year |-> start,
     commissioning_year |-> commissioning,
     retirement_year |-> retirement]

\* create_power_plant: "Calculate costs"
TotalCapitalCost(plant) ==
    (plant.capacity_mw * KwPerMw)
        * PLANT_TEMPLATES[plant.plant_type].overnight_cost_per_kw

\* create_power_plant: the status a plant is stored with.
PlantStatusAtCreation(commissioning_year) ==
    IF commissioning_year <= CreationYear
    THEN "operating"
    ELSE "under_construction"

DBPowerPlant(id, utility_id, game_session_id, plant) ==
    [id |-> id,
     utility_id |-> utility_id,
     game_session_id |-> game_session_id,
     plant_type |-> plant.plant_type,
     capacity_mw |-> plant.capacity_mw,
     construction_start_year |-> plant.construction_start_year,
     commissioning_year |-> plant.commissioning_year,
     retirement_year |-> plant.retirement_year,
     status |-> PlantStatusAtCreation(plant.commissioning_year),
     capital_cost_total |-> TotalCapitalCost(plant),
     fuel_type |-> PLANT_TEMPLATES[plant.plant_type].fuel_type]

\* create_user: a new user row with the column defaults.
DBUser(user_type) ==
    [user_type |-> user_type,
     budget |-> DefaultBudget,
     debt |-> 0,
     equity |-> DefaultEquity]

\* create_power_plant: "Update utility budget (subtract capital cost)".
\* Capital costs are multiples of 10, so 0.7 and 0.3 of them are whole.
PostCapital(utility, total_capital_cost) ==
    [utility EXCEPT
        !.budget = @ - total_capital_cost,
        !.debt = @ + (total_capital_cost \div 10) * 7,
        !.equity = @ - (total_capital_cost \div 10) * 3]

\* DEFAULT_FUEL_PRICES of electricity_market_backend: year -> fuel -> $/MMBtu.
DEFAULT_FUEL_PRICES ==
    [y \in {2025} |-> [f \in {"natural_gas"} |-> 3]]

\* AnnualDemandProfile of electricity_market_backend, as create_game_session
\* stores it: base demand per period in MW and the growth rate in percent.
AnnualDemandProfile ==
    [off_peak_demand |-> 500,
     shoulder_demand |-> 700,
     peak_demand |-> 1000,
     demand_growth_rate |-> 2]

DBGameSessionDefaultYear(start_year, end_year) ==
    [start_year |-> start_year,
     end_year |-> end_year,
     current_year |-> StartYear,
     state |-> "setup",
     demand_profile |-> AnnualDemandProfile,
     fuel_prices |-> DEFAULT_FUEL_PRICES]

\* create_game_session: a new session row (state defaults to setup).
DBGameSession(start_year, end_year) ==
    [start_year |-> start_year,
     end_year |-> end_year,
     current_year |-> start_year,
     state |-> "setup",
     demand_profile |-> AnnualDemandProfile,
     fuel_prices |-> DEFAULT_FUEL_PRICES]

BidValuesOf(b) ==
    <<b.off_peak_quantity, b.shoulder_quantity, b.peak_quantity,
      b.off_peak_price, b.shoulder_price, b.peak_price>>

BidKey(b) == <<b.game_session_id, b.plant_id, b.year>>

(***************************************************************************)
(* update_game_state                                                       *)
(***************************************************************************)
Reply(op, session_id, status) ==
    [op |-> op, session_id |-> session_id, utility_id |-> None,
     plant_id |-> None, status |-> status, bid_id |-> None, replaced |-> NoBid]

\* The handler without the conversion GameStateEnum(new_state).
update_game_state_unchecked(session_id, new_state) ==
    /\ session_id \in DOMAIN sessions
    /\ sessions' = [sessions EXCEPT ![session_id].state = new_state]
    /\ response' = Reply("update_game_state", session_id, HTTP_OK)
    /\ UNCHANGED <<plants, bids, closed, accepted, users, results, inflight>>

update_game_state(session_id, new_state) ==
    \/ /\ session_id \notin DOMAIN sessions
       /\ response' = Reply("update_game_state", session_id, HTTP_NOT_FOUND)
       /\ UNCHANGED <<sessions, plants, bids, closed, accepted, users, results,
                      inflight>>
    \/ /\ session_id \in DOMAIN sessions
       /\ new_state \notin GameStateEnum
       /\ response' = Reply("update_game_state", session_id, HTTP_BAD_REQUEST)
       /\ UNCHANGED <<sessions, plants, bids, closed, accepted, users, results,
                      inflight>>
    \/ /\ session_id \in DOMAIN sessions
       /\ new_state \in GameStateEnum
       /\ sessions' = [sessions EXCEPT ![session_id].state = new_state]
       /\ closed' =
            IF sessions[session_id].state = "bidding_open"
               /\ new_state = "market_clearing"
            THEN closed \cup {<<session_id, sessions[session_id].current_year>>}
            ELSE closed
       /\ response' = Reply("update_game_state", session_id, HTTP_OK)
       /\ UNCHANGED <<plants, bids, accepted, users, results, inflight>>

(***************************************************************************)
(* advance_year                                                            *)
(***************************************************************************)
AdvanceYearCompletesStrict(session) == session.current_year > session.end_year

AdvanceYearNeverCompletes(session) == FALSE

AdvanceYearCompletes(session) == session.current_year >= session.end_year

advance_year(session_id) ==
    \/ /\ session_id \notin DOMAIN sessions
       /\ response' = Reply("advance_year", session_id, HTTP_NOT_FOUND)
       /\ UNCHANGED <<sessions, plants, bids, closed, accepted, users, results,
                      inflight>>
    \/ /\ session_id \in DOMAIN sessions
       /\ AdvanceYearCompletes(sessions[session_id])
       /\ sessions' = [sessions EXCEPT ![session_id].state = "game_complete"]
       /\ response' = Reply("advance_year", session_id, HTTP_OK)
       /\ UNCHANGED <<plants, bids, closed, accepted, users, results, inflight>>
    \/ /\ session_id \in DOMAIN sessions
       /\ ~AdvanceYearCompletes(sessions[session_id])
       /\ sessions' =
            [sessions EXCEPT
               ![session_id].current_year = @ + 1,
               ![session_id].state = "year_planning"]
       /\ response' = Reply("advance_year", session_id, HTTP_OK)
       /\ UNCHANGED <<plants, bids, closed, accepted, users, results, inflight>>

(***************************************************************************)
(* submit_yearly_bid                                                       *)
(***************************************************************************)
FindPlantAnyOwner(session_id, plant_id, utility_id) ==
    {p \in plants : p.id = plant_id /\ p.game_session_id = session_id}

\* "Validate plant belongs to utility"
FindPlant(session_id, plant_id, utility_id) ==
    {p \in plants :
        /\ p.id = plant_id
        /\ p.utility_id = utility_id
        /\ p.game_session_id = session_id}

\* "Check if bid already exists for this plant and year"
FindExistingBid(session_id, plant_id, year) ==
    {b \in bids :
        /\ b.plant_id = plant_id
        /\ b.year = year
        /\ b.game_session_id = session_id}

UpdatedBidAdditive(existing_bid, bid) ==
    [existing_bid EXCEPT
        !.off_peak_quantity = @ + bid.values[1],
        !.shoulder_quantity = @ + bid.values[2],
        !.peak_quantity = @ + bid.values[3],
        !.off_peak_price = bid.values[4],
        !.shoulder_price = bid.values[5],
        !.peak_price = bid.values[6]]

\* The update as a delete and an insert under a new identifier.
UpdatedBidReinserted(existing_bid, bid) ==
    [existing_bid EXCEPT
        !.id = <<existing_bid.game_session_id, bid.plant_id, bid.year, 1>>,
        !.off_peak_quantity = bid.values[1],
        !.shoulder_quantity = bid.values[2],
        !.peak_quantity = bid.values[3],
        !.off_peak_price = bid.values[4],
        !.shoulder_price = bid.values[5],
        !.peak_price = bid.values[6]]

\* "Update existing bid"
UpdatedBid(existing_bid, bid) ==
    [existing_bid EXCEPT
        !.off_peak_quantity = bid.values[1],
        !.shoulder_quantity = bid.values[2],
        !.peak_quantity = bid.values[3],
        !.off_peak_price = bid.values[4],
        !.shoulder_price = bid.values[5],
        !.peak_price = bid.values[6]]

\* uuid4() gives an identifier no row has.  The model names a new row by its
\* key and the number of rows that already have that key, which no row has.
NewBidId(session_id, bid) ==
    <<session_id, bid.plant_id, bid.year,
      Cardinality(FindExistingBid(session_id, bid.plant_id, bid.year))>>

\* "Create new bid"
DBYearlyBid(session_id, bid, utility_id) ==
    [id |-> NewBidId(session_id, bid),
     utility_id |-> utility_id,
     game_session_id |-> session_id,
     plant_id |-> bid.plant_id,
     year |-> bid.year,
     off_peak_quantity |-> bid.values[1],
     shoulder_quantity |-> bid.values[2],
     peak_quantity |-> bid.values[3],
     off_peak_price |-> bid.values[4],
     shoulder_price |-> bid.values[5],
     peak_price |-> bid.values[6]]

BidReply(session_id, bid, utility_id, status, bid_id, replaced) ==
    [op |-> "submit_yearly_bid", session_id |-> session_id,
     utility_id |-> utility_id, plant_id |-> bid.plant_id,
     status |-> status, bid_id |-> bid_id, replaced |-> replaced]

Accept(session_id, bid) ==
    LET key == <<session_id, bid.plant_id, bid.year>>
    IN  [k \in DOMAIN accepted \cup {key} |->
            IF k = key THEN bid.values ELSE accepted[k]]

submit_yearly_bid(session_id, bid, utility_id) ==
    \/ /\ FindPlant(session_id, bid.plant_id, utility_id) = {}
       /\ response' =
            BidReply(session_id, bid, utility_id, HTTP_NOT_FOUND, None, NoBid)
       /\ UNCHANGED <<sessions, plants, bids, closed, accepted, users, results,
                      inflight>>
    \/ /\ FindPlant(session_id, bid.plant_id, utility_id) # {}
       /\ \E existing_bid \in FindExistingBid(session_id, bid.plant_id, bid.year) :
             /\ bids' = (bids \ {existing_bid})
                           \cup {UpdatedBid(existing_bid, bid)}
             /\ response' =
                  BidReply(session_id, bid, utility_id, HTTP_OK,
                           existing_bid.id, BidValuesOf(existing_bid))
       /\ accepted' = Accept(session_id, bid)
       /\ UNCHANGED <<sessions, plants, closed, users, results, inflight>>
    \/ /\ FindPlant(session_id, bid.plant_id, utility_id) # {}
       /\ FindExistingBid(session_id, bid.plant_id, bid.year) = {}
       /\ Cardinality(bids) < MaxBids
       /\ bids' = bids \cup {DBYearlyBid(session_id, bid, utility_id)}
       /\ response' =
            BidReply(session_id, bid, utility_id, HTTP_OK,
                     NewBidId(session_id, bid), NoBid)
       /\ accepted' = Accept(session_id, bid)
       /\ UNCHANGED <<sessions, plants, closed, users, results, inflight>>

(***************************************************************************)
(* create_game_session                                                     *)
(***************************************************************************)
\* uuid4() for a new session: an identifier no session has.
SessionUuids == {"game_1"}

\* GameSessionCreate: start_year and end_year are plain ints.
SessionYears == {2025, 2026}

create_game_session(start_year, end_year) ==
    \E id \in SessionUuids \ DOMAIN sessions :
       /\ sessions' =
            [s \in DOMAIN sessions \cup {id} |->
                IF s = id
                THEN DBGameSession(start_year, end_year)
                ELSE sessions[s]]
       /\ response' = Reply("create_game_session", id, HTTP_OK)
       /\ UNCHANGED <<plants, bids, users, results, closed, accepted, inflight>>

(***************************************************************************)
(* create_power_plant                                                      *)
(***************************************************************************)
\* Plants the power_plants table may hold before inserts are cut off.
MaxPlants == 2

\* uuid4() for a new plant: an identifier no plant has.
PlantUuids == <<"plant_1", "plant_2", "plant_3", "plant_4">>

NewPlantId == PlantUuids[Cardinality(plants) + 1]

PlantReply(session_id, utility_id, plant_id, status) ==
    [op |-> "create_power_plant", session_id |-> session_id,
     utility_id |-> utility_id, plant_id |-> plant_id,
     status |-> status, bid_id |-> None, replaced |-> NoBid]

\* "utility = db.query(DBUser)...first(); if utility: ..."
UsersAfterPosting(utility_id, total_capital_cost) ==
    IF utility_id \in DOMAIN users
    THEN [users EXCEPT
            ![utility_id] = PostCapital(@, total_capital_cost)]
    ELSE users

create_power_plant(session_id, plant, utility_id) ==
    \/ /\ plant.plant_type \notin PlantTypeEnum
       /\ response' =
            PlantReply(session_id, utility_id, None, HTTP_BAD_REQUEST)
       /\ UNCHANGED <<sessions, plants, bids, users, results, closed, accepted,
                      inflight>>
    \/ /\ plant.plant_type \in PlantTypeEnum
       /\ Cardinality(plants) < MaxPlants
       /\ plants' =
            plants \cup {DBPowerPlant(NewPlantId, utility_id, session_id, plant)}
       /\ users' = UsersAfterPosting(utility_id, TotalCapitalCost(plant))
       /\ response' =
            PlantReply(session_id, utility_id, NewPlantId, HTTP_OK)
       /\ UNCHANGED <<sessions, bids, results, closed, accepted, inflight>>

(***************************************************************************)
(* The investment specification: an operator creates the session and runs  *)
(* its state machine while utilities build plants.  The database starts    *)
(* with the utility accounts as create_user leaves them.                   *)
(***************************************************************************)
InvestUtilityIds == {"utility_1", "no_such_utility"}

PlantRequests ==
    { PlantRequest("solar", 100, 2024, 2025, 2030),
      PlantRequest("natural_gas_ct", 100, 2025, 2026, 2030),
      PlantRequest("solar", 100, 2026, 2025, 2024),
      PlantRequest("not_a_type", 100, 2024, 2025, 2030) }

InitInvest ==
    /\ sessions = <<>>
    /\ plants = {}
    /\ bids = {}
    /\ users = [u \in {"utility_1"} |-> DBUser("utility")]
    /\ results = {}
    /\ response = Reply(None, None, HTTP_OK)
    /\ closed = {}
    /\ accepted = <<>>
    /\ inflight = [r \in Requests |-> Idle]

NextInvest ==
    \/ \E start_year \in SessionYears, end_year \in SessionYears :
          create_game_session(start_year, end_year)
    \/ \E session_id \in SessionUuids, new_state \in RequestStates :
          update_game_state(session_id, new_state)
    \/ \E session_id \in SessionUuids :
          advance_year(session_id)
    \/ \E session_id \in SessionUuids, plant \in PlantRequests,
          utility_id \in InvestUtilityIds :
          create_power_plant(session_id, plant, utility_id)

SpecInvest == InitInvest /\ [][NextInvest]_vars

(***************************************************************************)
(* The specification.  The database holds one session as create_game_session *)
(* leaves it and two plants as create_power_plant stores them: plant_1 of  *)
(* utility_1 is commissioned in 2025 and retires in 2026, plant_2 of       *)
(* utility_2 is commissioned in 2026.                                      *)
(***************************************************************************)
FirstPlant == PlantRequest("natural_gas_ct", 100, 2024, 2025, 2026)

SecondPlant == PlantRequest("solar", 100, 2025, 2026, 2030)

Init ==
    /\ sessions = [s \in {GameId} |-> DBGameSession(StartYear, EndYear)]
    /\ plants =
         { DBPowerPlant("plant_1", "utility_1", GameId, FirstPlant),
           DBPowerPlant("plant_2", "utility_2", GameId, SecondPlant) }
    /\ bids = {}
    /\ users =
         [u \in UtilityIds |->
            PostCapital(DBUser("utility"),
                        TotalCapitalCost(IF u = "utility_1"
                                         THEN FirstPlant ELSE SecondPlant))]
    /\ results = {}
    /\ response = Reply(None, None, HTTP_OK)
    /\ closed = {}
    /\ accepted = <<>>
    /\ inflight = [r \in Requests |-> Idle]

Next ==
    \/ \E session_id \in SessionIds, new_state \in RequestStates :
          update_game_state(session_id, new_state)
    \/ \E session_id \in SessionIds :
          advance_year(session_id)
    \/ \E session_id \in SessionIds, bid \in YearlyBidCreate,
          utility_id \in UtilityIds :
          submit_yearly_bid(session_id, bid, utility_id)

Spec == Init /\ [][Next]_vars

(***************************************************************************)
(* get_fuel_prices, get_plant_economics, get_game_dashboard                *)
(***************************************************************************)
\* x^n for a fraction x and an integer n: Python's ** with a negative
\* exponent gives the reciprocal power.
PowerOf(x, n) ==
    IF n >= 0
    THEN <<Power(x[1], n), Power(x[2], n)>>
    ELSE <<Power(x[2], -n), Power(x[1], -n)>>

\* Years of a query: one before the first session year up to one past the
\* last, so that a schedule can miss the year on either side.
QueryHorizon == 2
QueryYears == (StartYear - 1) .. (StartYear + QueryHorizon + 1)

FuelGrowthPercent == 2
FallbackFuelYear == 2025

\* session.fuel_prices: the schedules a session row can hold.  The first is
\* DEFAULT_FUEL_PRICES; the others have a second year, no entry for 2025, and
\* an entry that is an empty dict.
FuelSchedules ==
    { DEFAULT_FUEL_PRICES,
      [y \in {2025, 2026} |->
          [f \in {"natural_gas"} |-> IF y = 2025 THEN 3 ELSE 4]],
      [y \in {2026} |-> [f \in {"natural_gas"} |-> 5]],
      [y \in {2025, 2026} |->
          [f \in (IF y = 2025 THEN {} ELSE {"natural_gas"}) |-> 4]] }

\* json.loads(session.fuel_prices): every price becomes a float.
FuelPricesData(session) ==
    [y \in DOMAIN session.fuel_prices |->
        [f \in DOMAIN session.fuel_prices[y] |->
            Whole(session.fuel_prices[y][f])]]

EarliestYear(fuel_prices_data) ==
    CHOOSE y \in DOMAIN fuel_prices_data :
        \A z \in DOMAIN fuel_prices_data : y <= z

\* max(int(y) for y in fuel_prices_data.keys())
LatestYear(fuel_prices_data) ==
    CHOOSE y \in DOMAIN fuel_prices_data :
        \A z \in DOMAIN fuel_prices_data : z <= y

\* "if not year_prices": the year has no entry, or its entry is an empty dict.
NotYearPrices(fuel_prices_data, year) ==
    \/ year \notin DOMAIN fuel_prices_data
    \/ DOMAIN fuel_prices_data[year] = {}

\* "Simple extrapolation with 2% annual growth"
ExtrapolatedPrices(fuel_prices_data, year) ==
    LET latest_year == LatestYear(fuel_prices_data)
        latest_prices == fuel_prices_data[latest_year]
        years_diff == year - latest_year
        growth_factor ==
            PowerOf(Fraction(100 + FuelGrowthPercent, 100), years_diff)
    IN  [fuel \in DOMAIN latest_prices |->
            Times(latest_prices[fuel], growth_factor)]

\* The "fuel_prices" of the reply of get_fuel_prices.
YearPrices(session, year) ==
    LET fuel_prices_data == FuelPricesData(session)
    IN  IF NotYearPrices(fuel_prices_data, year)
        THEN ExtrapolatedPrices(fuel_prices_data, year)
        ELSE fuel_prices_data[year]

QueryReply(op, session_id, plant_id, year, status, body) ==
    [op |-> op, session_id |-> session_id, plant_id |-> plant_id,
     year |-> year, status |-> status, body |-> body]

get_fuel_prices(session_id, year) ==
    \/ /\ session_id \notin DOMAIN sessions
       /\ response' = QueryReply("get_fuel_prices", session_id, None, year,
                                 HTTP_NOT_FOUND, None)
       /\ UNCHANGED <<sessions, plants, bids, users, results, closed,
                      accepted, inflight>>
    \/ /\ session_id \in DOMAIN sessions
       /\ response' =
            QueryReply("get_fuel_prices", session_id, None, year, HTTP_OK,
                       [year |-> year,
                        fuel_prices |-> YearPrices(sessions[session_id], year)])
       /\ UNCHANGED <<sessions, plants, bids, users, results, closed,
                      accepted, inflight>>

\* fuel_prices_data.get(str(year), fuel_prices_data.get("2025", {}))
YearFuelPrices(session, year) ==
    LET fuel_prices_data == FuelPricesData(session)
    IN  IF year \in DOMAIN fuel_prices_data
        THEN fuel_prices_data[year]
        ELSE IF FallbackFuelYear \in DOMAIN fuel_prices_data
             THEN fuel_prices_data[FallbackFuelYear]
             ELSE [f \in {} |-> Whole(0)]

\* year_fuel_prices.get(plant.fuel_type, 0) if plant.fuel_type else 0
FuelCosts(plant, year_fuel_prices) ==
    IF plant.fuel_type # None /\ plant.fuel_type \in DOMAIN year_fuel_prices
    THEN year_fuel_prices[plant.fuel_type]
    ELSE Whole(0)

PlantOfSession(session_id, plant_id) ==
    {p \in plants : p.id = plant_id /\ p.game_session_id = session_id}

get_plant_economics(session_id, plant_id, year) ==
    \/ /\ PlantOfSession(session_id, plant_id) = {}
       /\ response' = QueryReply("get_plant_economics", session_id, plant_id,
                                 year, HTTP_NOT_FOUND, None)
       /\ UNCHANGED <<sessions, plants, bids, users, results, closed,
                      accepted, inflight>>
    \/ /\ PlantOfSession(session_id, plant_id) # {}
       /\ session_id \in DOMAIN sessions
       /\ LET plant == CHOOSE p \in PlantOfSession(session_id, plant_id) : TRUE
              year_fuel_prices == YearFuelPrices(sessions[session_id], year)
          IN  response' =
                QueryReply("get_plant_economics", session_id, plant_id, year,
                           HTTP_OK,
                           [year |-> year,
                            fuel_prices |-> year_fuel_prices,
                            fuel_costs |-> FuelCosts(plant, year_fuel_prices)])
       /\ UNCHANGED <<sessions, plants, bids, users, results, closed,
                      accepted, inflight>>

GrowthFactorLinear(session) ==
    LET demand_data == session.demand_profile
        current_year_offset == session.current_year - session.start_year
    IN  Fraction(100 + demand_data.demand_growth_rate * current_year_offset,
                 100)

\* "Calculate current demand with growth"
GrowthFactor(session) ==
    LET demand_data == session.demand_profile
        current_year_offset == session.current_year - session.start_year
    IN  PowerOf(Fraction(100 + demand_data.demand_growth_rate, 100),
                current_year_offset)

CurrentDemands(session) ==
    LET demand_data == session.demand_profile
        growth_factor == GrowthFactor(session)
    IN  [off_peak |-> Times(Whole(demand_data.off_peak_demand), growth_factor),
         shoulder |-> Times(Whole(demand_data.shoulder_demand), growth_factor),
         peak |-> Times(Whole(demand_data.peak_demand), growth_factor)]

get_game_dashboard(session_id) ==
    \/ /\ session_id \notin DOMAIN sessions
       /\ response' = QueryReply("get_game_dashboard", session_id, None, None,
                                 HTTP_NOT_FOUND, None)
       /\ UNCHANGED <<sessions, plants, bids, users, results, closed,
                      accepted, inflight>>
    \/ /\ session_id \in DOMAIN sessions
       /\ response' =
            QueryReply("get_game_dashboard", session_id, None,
                       sessions[session_id].current_year, HTTP_OK,
                       [current_year |-> sessions[session_id].current_year,
                        current_demands |->
                            CurrentDemands(sessions[session_id])])
       /\ UNCHANGED <<sessions, plants, bids, users, results, closed,
                      accepted, inflight>>

(***************************************************************************)
(* SpecQueries: one session whose fuel schedule and first year are drawn   *)
(* from small sets, the two plants of Init, the year clock and the three   *)
(* read-only handlers.                                                     *)
(***************************************************************************)
\* session.demand_profile: the default profile and one with other numbers.
DemandProfiles ==
    { AnnualDemandProfile,
      [off_peak_demand |-> 300, shoulder_demand |-> 400,
       peak_demand |-> 600, demand_growth_rate |-> 5] }

InitQueries ==
    /\ \E start_year \in {StartYear, StartYear + 1},
          fuel_prices \in FuelSchedules,
          demand_profile \in DemandProfiles :
          sessions =
            [s \in {GameId} |->
                [DBGameSession(start_year, StartYear + QueryHorizon)
                    EXCEPT !.fuel_prices = fuel_prices,
                           !.demand_profile = demand_profile]]
    /\ plants =
         { DBPowerPlant("plant_1", "utility_1", GameId, FirstPlant),
           DBPowerPlant("plant_2", "utility_2", GameId, SecondPlant) }
    /\ bids = {}
    /\ users =
         [u \in UtilityIds |->
            PostCapital(DBUser("utility"),
                        TotalCapitalCost(IF u = "utility_1"
                                         THEN FirstPlant ELSE SecondPlant))]
    /\ results = {}
    /\ response = Reply(None, None, HTTP_OK)
    /\ closed = {}
    /\ accepted = <<>>
    /\ inflight = [r \in Requests |-> Idle]

NextQueries ==
    \/ \E session_id \in SessionIds :
          advance_year(session_id)
    \/ \E session_id \in SessionIds, year \in QueryYears :
          get_fuel_prices(session_id, year)
    \/ \E session_id \in SessionIds, plant_id \in RequestPlantIds,
          year \in QueryYears :
          get_plant_economics(session_id, plant_id, year)
    \/ \E session_id \in SessionIds :
          get_game_dashboard(session_id)

SpecQueries == InitQueries /\ [][NextQueries]_vars

(***************************************************************************)
(* Market clearing.  The clearing engine is not in the sources at hand     *)
(* (startup.py imports it from game_orchestrator), so it follows section   *)
(* 4.3 of the specification; DBMarketResult is the row it stores.          *)
(***************************************************************************)
PeriodHours == [off_peak |-> 5000, shoulder |-> 2500, peak |-> 1260]

\* The plant identifiers in ascending order, for the tie-break.
PlantIdsAscending == <<"plant_1", "plant_2", "plant_3", "plant_4">>

PlantRank(plant_id) ==
    CHOOSE i \in 1..Len(PlantIdsAscending) : PlantIdsAscending[i] = plant_id

\* The quantity and the price a bid offers in a period.
OfferOf(b, period) ==
    [bid_id |-> b.id,
     plant_id |-> b.plant_id,
     quantity |-> IF period = "off_peak" THEN b.off_peak_quantity
                  ELSE IF period = "shoulder" THEN b.shoulder_quantity
                  ELSE b.peak_quantity,
     price |-> IF period = "off_peak" THEN b.off_peak_price
               ELSE IF period = "shoulder" THEN b.shoulder_price
               ELSE b.peak_price]

EligibleOffersOfAnyPlant(session_id, year, period) ==
    { OfferOf(b, period) :
        b \in {x \in bids : x.game_session_id = session_id /\ x.year = year} }

\* "Eligible bids are all Bids for the (session, year) whose plant status is
\* operating", one offer per period.
EligibleOffers(session_id, year, period) ==
    { OfferOf(b, period) :
        b \in {x \in bids :
                 /\ x.game_session_id = session_id
                 /\ x.year = year
                 /\ \E p \in plants :
                       /\ p.id = x.plant_id
                       /\ p.game_session_id = session_id
                       /\ p.status = "operating"} }

InMeritOrderLargerIdFirst(o, p) ==
    \/ o.price < p.price
    \/ o.price = p.price /\ PlantRank(o.plant_id) >= PlantRank(p.plant_id)

\* Step 1: ascending price, ties by ascending plant identifier.
InMeritOrder(o, p) ==
    \/ o.price < p.price
    \/ o.price = p.price /\ PlantRank(o.plant_id) <= PlantRank(p.plant_id)

\* The offers in an order that ignores the prices.
RECURSIVE SortOffersByPlant(_)
SortOffersByPlant(offers) ==
    IF offers = {} THEN <<>>
    ELSE LET first == CHOOSE o \in offers :
                         \A p \in offers :
                            PlantRank(o.plant_id) <= PlantRank(p.plant_id)
         IN  <<first>> \o SortOffersByPlant(offers \ {first})

RECURSIVE SortOffers(_)
SortOffers(offers) ==
    IF offers = {} THEN <<>>
    ELSE LET first == CHOOSE o \in offers :
                         \A p \in offers : InMeritOrder(o, p)
         IN  <<first>> \o SortOffers(offers \ {first})

RECURSIVE Cumulative(_, _)
Cumulative(sorted, k) ==
    IF k = 0 THEN 0 ELSE Cumulative(sorted, k - 1) + sorted[k].quantity

\* cumulative >= demand, the demand being a fraction.
MeetsDemand(cumulative, demand_mw) ==
    cumulative * demand_mw[2] >= demand_mw[1]

\* Step 2: the number of offers accepted, in sorted order, until the
\* cumulative quantity reaches the demand or the offers are exhausted.
RECURSIVE AcceptedCount(_, _, _)
AcceptedCount(sorted, demand_mw, k) ==
    IF k = Len(sorted) \/ MeetsDemand(Cumulative(sorted, k), demand_mw)
    THEN k
    ELSE AcceptedCount(sorted, demand_mw, k + 1)

ClearedQuantityIsDemand(sorted, demand_mw) == demand_mw

ClearedQuantityInFull(sorted, demand_mw) ==
    Whole(Cumulative(sorted, AcceptedCount(sorted, demand_mw, 0)))

\* Step 6: the demand when supply is sufficient (the marginal offer is taken
\* in part), the total offered quantity otherwise.
ClearedQuantity(sorted, demand_mw) ==
    IF MeetsDemand(Cumulative(sorted, Len(sorted)), demand_mw)
    THEN demand_mw
    ELSE Whole(Cumulative(sorted, Len(sorted)))

\* clear(period, demand_mw, eligible_bids) -> ClearingResult
Clear(period, demand_mw, eligible_bids) ==
    LET sorted == SortOffers(eligible_bids)
        k == AcceptedCount(sorted, demand_mw, 0)
        cleared_quantity == ClearedQuantity(sorted, demand_mw)
    IN  [period |-> period,
         clearing_price |-> IF k = 0 THEN None ELSE sorted[k].price,
         cleared_quantity |-> cleared_quantity,
         total_energy |-> Times(cleared_quantity, Whole(PeriodHours[period])),
         accepted_supply_bids |-> [i \in 1..k |-> sorted[i].bid_id],
         marginal_plant |-> IF k = 0 THEN None ELSE sorted[k].plant_id,
         supply_shortfall |->
            ~MeetsDemand(Cumulative(sorted, Len(sorted)), demand_mw)]

\* The demand of a period in a year: the base demand of the profile grown
\* from the session's first year.
DemandMw(session, year, period) ==
    LET demand_data == session.demand_profile
        base == IF period = "off_peak" THEN demand_data.off_peak_demand
                ELSE IF period = "shoulder" THEN demand_data.shoulder_demand
                ELSE demand_data.peak_demand
    IN  Times(Whole(base),
              PowerOf(Fraction(100 + demand_data.demand_growth_rate, 100),
                      year - session.start_year))

\* DBMarketResult: one row per (session, year, period).
DBMarketResult(session_id, year, result) ==
    [game_session_id |-> session_id,
     year |-> year,
     period |-> result.period,
     clearing_price |-> result.clearing_price,
     cleared_quantity |-> result.cleared_quantity,
     total_energy |-> result.total_energy,
     accepted_supply_bids |-> result.accepted_supply_bids,
     marginal_plant |-> result.marginal_plant,
     supply_shortfall |-> result.supply_shortfall]

\* The reply: the status and whether stored results were replaced.
ClearingReply(session_id, year, status, replaced) ==
    [op |-> "clear_annual_markets", session_id |-> session_id,
     year |-> year, status |-> status, replaced |-> replaced]

MayClearInAnyState(session) == TRUE

\* "to clear a market outside market_clearing fails with
\* InvalidStateTransition"
MayClear(session) == session.state = "market_clearing"

KeptResultsAll(session_id, year) == results

\* "a later clearing for the same (year, period) replaces it": the rows that
\* stay are those of the other sessions and years.
KeptResults(session_id, year) ==
    {r \in results : ~(r.game_session_id = session_id /\ r.year = year)}

\* POST /game-sessions/{id}/clear-annual-markets/{year}: clears the three
\* periods of the year and stores the results in place of the earlier ones.
clear_annual_markets(session_id, year) ==
    \/ /\ session_id \notin DOMAIN sessions
       /\ response' = ClearingReply(session_id, year, HTTP_NOT_FOUND, FALSE)
       /\ UNCHANGED <<sessions, plants, bids, users, results, closed,
                      accepted, inflight>>
    \/ /\ session_id \in DOMAIN sessions
       /\ ~MayClear(sessions[session_id])
       /\ response' = ClearingReply(session_id, year, HTTP_BAD_REQUEST, FALSE)
       /\ UNCHANGED <<sessions, plants, bids, users, results, closed,
                      accepted, inflight>>
    \/ /\ session_id \in DOMAIN sessions
       /\ MayClear(sessions[session_id])
       /\ results' =
            KeptResults(session_id, year)
            \cup
            { DBMarketResult(session_id, year,
                  Clear(period, DemandMw(sessions[session_id], year, period),
                        EligibleOffers(session_id, year, period))) :
                period \in LoadPeriodEnum }
       /\ response' =
            ClearingReply(session_id, year, HTTP_OK,
                          \E r \in results :
                              /\ r.game_session_id = session_id
                              /\ r.year = year)
       /\ UNCHANGED <<sessions, plants, bids, users, closed, accepted, inflight>>

(***************************************************************************)
(* SpecClearing: one session open for bidding in its first year, four      *)
(* plants of which the fourth is still under construction, the bid book,   *)
(* the switch between bidding and clearing, and the clearing.              *)
(***************************************************************************)
ClearingPlants ==
    << PlantRequest("natural_gas_ct", 400, 2024, 2025, 2030),
       PlantRequest("natural_gas_ct", 200, 2024, 2025, 2030),
       PlantRequest("solar", 150, 2024, 2025, 2030),
       PlantRequest("solar", 500, 2025, 2026, 2030) >>

ClearingOwner(i) == IF i <= 2 THEN "utility_1" ELSE "utility_2"

\* The offers of the example of the specification (400 MW at $45, 200 MW at
\* $85, 150 MW at $0), a second bid of plant_2 that ties with plant_1 on
\* price and offers a negative quantity off peak, and a bid of the plant
\* that is not operating.
ClearingBids ==
    { [plant_id |-> "plant_1", year |-> 2025,
       values |-> <<400, 400, 400, 45, 45, 45>>],
      [plant_id |-> "plant_2", year |-> 2025,
       values |-> <<200, 200, 200, 85, 85, 85>>],
      [plant_id |-> "plant_2", year |-> 2025,
       values |-> <<-50, 200, 200, 45, 45, 45>>],
      [plant_id |-> "plant_3", year |-> 2025,
       values |-> <<150, 150, 150, 0, 0, 0>>],
      [plant_id |-> "plant_4", year |-> 2025,
       values |-> <<500, 500, 500, 10, 10, 10>>] }

ClearingYears == {2025, 2026}

ClearingStates == {"bidding_open", "market_clearing", "not_a_state"}

InitClearing ==
    /\ sessions =
         [s \in {GameId} |->
            [DBGameSession(StartYear, EndYear) EXCEPT !.state = "bidding_open"]]
    /\ plants =
         { DBPowerPlant(PlantIdsAscending[i], ClearingOwner(i), GameId,
                        ClearingPlants[i]) : i \in 1..Len(ClearingPlants) }
    /\ bids = {}
    /\ users =
         [u \in UtilityIds |->
            PostCapital(
              PostCapital(DBUser("utility"),
                          TotalCapitalCost(
                              ClearingPlants[IF u = "utility_1" THEN 1 ELSE 3])),
              TotalCapitalCost(
                  ClearingPlants[IF u = "utility_1" THEN 2 ELSE 4]))]
    /\ results = {}
    /\ response = Reply(None, None, HTTP_OK)
    /\ closed = {}
    /\ accepted = <<>>
    /\ inflight = [r \in Requests |-> Idle]

NextClearing ==
    \/ \E session_id \in SessionIds, new_state \in ClearingStates :
          update_game_state(session_id, new_state)
    \/ \E session_id \in SessionIds, bid \in ClearingBids,
          utility_id \in UtilityIds :
          submit_yearly_bid(session_id, bid, utility_id)
    \/ \E session_id \in SessionIds, year \in ClearingYears :
          clear_annual_markets(session_id, year)

SpecClearing == InitClearing /\ [][NextClearing]_vars

(***************************************************************************)
(* SpecSessions: two sessions and one utility that takes part in both.  It *)
(* owns a plant in the second session and can build one in the first.      *)
(***************************************************************************)
OtherGameId == "sample_game_2"
TwoSessionIds == {GameId, OtherGameId}

TwoSessionStates == {"bidding_open", "not_a_state"}

TwoSessionBids ==
    [plant_id : PlantIds, year : {2025}, values : BidValues]

InitSessions ==
    /\ sessions = [s \in TwoSessionIds |-> DBGameSession(StartYear, EndYear)]
    /\ plants = { DBPowerPlant("plant_1", "utility_1", OtherGameId, FirstPlant) }
    /\ bids = {}
    /\ users =
         [u \in UtilityIds |->
            IF u = "utility_1"
            THEN PostCapital(DBUser("utility"), TotalCapitalCost(FirstPlant))
            ELSE DBUser("utility")]
    /\ results = {}
    /\ response = Reply(None, None, HTTP_OK)
    /\ closed = {}
    /\ accepted = <<>>
    /\ inflight = [r \in Requests |-> Idle]

NextSessions ==
    \/ \E session_id \in TwoSessionIds \cup {"no_such_game"},
          new_state \in TwoSessionStates :
          update_game_state(session_id, new_state)
    \/ \E session_id \in TwoSessionIds \cup {"no_such_game"} :
          advance_year(session_id)
    \/ \E session_id \in TwoSessionIds,
          plant \in {FirstPlant, PlantRequest("not_a_type", 100, 2024, 2025, 2030)} :
          create_power_plant(session_id, plant, "utility_1")
    \/ \E session_id \in TwoSessionIds, bid \in TwoSessionBids,
          utility_id \in UtilityIds :
          submit_yearly_bid(session_id, bid, utility_id)

SpecSessions == InitSessions /\ [][NextSessions]_vars

(***************************************************************************)
(* Requests in progress at the same time.  A handler first queries, then   *)
(* changes what it read and commits; another request can be served between *)
(* the two.  Each of the two steps is one action.                          *)
(***************************************************************************)
\* submit_yearly_bid up to its second query: the plant check and the lookup
\* of the existing bid, kept in the handler's own session.
submit_yearly_bid_query(request, session_id, bid, utility_id) ==
    \/ /\ inflight[request] = Idle
       /\ FindPlant(session_id, bid.plant_id, utility_id) = {}
       /\ response' =
            BidReply(session_id, bid, utility_id, HTTP_NOT_FOUND, None, NoBid)
       /\ UNCHANGED <<sessions, plants, bids, users, results, closed,
                      accepted, inflight>>
    \/ /\ inflight[request] = Idle
       /\ FindPlant(session_id, bid.plant_id, utility_id) # {}
       /\ \E existing_bid \in
             FindExistingBid(session_id, bid.plant_id, bid.year) :
             inflight' =
               [inflight EXCEPT ![request] =
                   [pc |-> "submit_yearly_bid", session_id |-> session_id,
                    bid |-> bid, utility_id |-> utility_id,
                    existing_bid |-> existing_bid]]
       /\ UNCHANGED <<sessions, plants, bids, users, results, response,
                      closed, accepted>>
    \/ /\ inflight[request] = Idle
       /\ FindPlant(session_id, bid.plant_id, utility_id) # {}
       /\ FindExistingBid(session_id, bid.plant_id, bid.year) = {}
       /\ inflight' =
            [inflight EXCEPT ![request] =
                [pc |-> "submit_yearly_bid", session_id |-> session_id,
                 bid |-> bid, utility_id |-> utility_id,
                 existing_bid |-> NoBid]]
       /\ UNCHANGED <<sessions, plants, bids, users, results, response,
                      closed, accepted>>

\* The UPDATE that the commit sends for a bid row the handler has loaded:
\* the row of that id gets the six numbers of the request.
FlushedBids(existing_bid, bid) ==
    {IF b.id = existing_bid.id THEN UpdatedBid(b, bid) ELSE b : b \in bids}

\* submit_yearly_bid from "if existing_bid" to the commit.
submit_yearly_bid_commit(request) ==
    \/ /\ inflight[request].pc = "submit_yearly_bid"
       /\ inflight[request].existing_bid # NoBid
       /\ LET q == inflight[request]
          IN  /\ bids' = FlushedBids(q.existing_bid, q.bid)
              /\ response' =
                   BidReply(q.session_id, q.bid, q.utility_id, HTTP_OK,
                            q.existing_bid.id, BidValuesOf(q.existing_bid))
              /\ accepted' = Accept(q.session_id, q.bid)
       /\ inflight' = [inflight EXCEPT ![request] = Idle]
       /\ UNCHANGED <<sessions, plants, users, closed, results>>
    \/ /\ inflight[request].pc = "submit_yearly_bid"
       /\ inflight[request].existing_bid = NoBid
       /\ Cardinality(bids) < MaxBids
       /\ LET q == inflight[request]
          IN  /\ bids' =
                   bids \cup {DBYearlyBid(q.session_id, q.bid, q.utility_id)}
              /\ response' =
                   BidReply(q.session_id, q.bid, q.utility_id, HTTP_OK,
                            NewBidId(q.session_id, q.bid), NoBid)
              /\ accepted' = Accept(q.session_id, q.bid)
       /\ inflight' = [inflight EXCEPT ![request] = Idle]
       /\ UNCHANGED <<sessions, plants, users, closed, results>>

NoUser == <<>>

\* create_power_plant up to its query of the utility: the row it read stays
\* in the handler's own session.
create_power_plant_query(request, session_id, plant, utility_id) ==
    \/ /\ inflight[request] = Idle
       /\ plant.plant_type \notin PlantTypeEnum
       /\ response' =
            PlantReply(session_id, utility_id, None, HTTP_BAD_REQUEST)
       /\ UNCHANGED <<sessions, plants, bids, users, results, closed,
                      accepted, inflight>>
    \/ /\ inflight[request] = Idle
       /\ plant.plant_type \in PlantTypeEnum
       /\ inflight' =
            [inflight EXCEPT ![request] =
                [pc |-> "create_power_plant", session_id |-> session_id,
                 plant |-> plant, utility_id |-> utility_id,
                 utility |-> IF utility_id \in DOMAIN users
                             THEN users[utility_id] ELSE NoUser]]
       /\ UNCHANGED <<sessions, plants, bids, users, results, response,
                      closed, accepted>>

\* The UPDATE that the commit sends for the users row: budget, debt and
\* equity as computed from the row the handler read.
UsersAfterCommit(utility_id, utility, total_capital_cost) ==
    IF utility # NoUser
    THEN [users EXCEPT ![utility_id] = PostCapital(utility, total_capital_cost)]
    ELSE users

\* create_power_plant from "if utility" to the commit.
create_power_plant_commit(request) ==
    /\ inflight[request].pc = "create_power_plant"
    /\ Cardinality(plants) < MaxPlants
    /\ LET q == inflight[request]
       IN  /\ plants' =
                plants \cup {DBPowerPlant(NewPlantId, q.utility_id,
                                          q.session_id, q.plant)}
           /\ users' = UsersAfterCommit(q.utility_id, q.utility,
                                        TotalCapitalCost(q.plant))
           /\ response' =
                PlantReply(q.session_id, q.utility_id, NewPlantId, HTTP_OK)
    /\ inflight' = [inflight EXCEPT ![request] = Idle]
    /\ UNCHANGED <<sessions, bids, results, closed, accepted>>

\* SpecBidRace: the session and plants of Init, two requests bidding.
RaceBids ==
    [plant_id : {"plant_1"}, year : {2025}, values : BidValues]

NextBidRace ==
    \/ \E request \in Requests, bid \in RaceBids, utility_id \in UtilityIds :
          submit_yearly_bid_query(request, GameId, bid, utility_id)
    \/ \E request \in Requests :
          submit_yearly_bid_commit(request)

SpecBidRace == Init /\ [][NextBidRace]_vars

\* SpecPlantRace: the session of Init, no plant yet, two requests building.
RacePlants ==
    { PlantRequest("natural_gas_ct", 100, 2024, 2025, 2030),
      PlantRequest("solar", 100, 2024, 2025, 2030),
      PlantRequest("not_a_type", 100, 2024, 2025, 2030) }

InitPlantRace ==
    /\ sessions = [s \in {GameId} |-> DBGameSession(StartYear, EndYear)]
    /\ plants = {}
    /\ bids = {}
    /\ users = [u \in {"utility_1"} |-> DBUser("utility")]
    /\ results = {}
    /\ response = Reply(None, None, HTTP_OK)
    /\ closed = {}
    /\ accepted = <<>>
    /\ inflight = [r \in Requests |-> Idle]

NextPlantRace ==
    \/ \E request \in Requests, plant \in RacePlants,
          utility_id \in InvestUtilityIds :
          create_power_plant_query(request, GameId, plant, utility_id)
    \/ \E request \in Requests :
          create_power_plant_commit(request)

SpecPlantRace == InitPlantRace /\ [][NextPlantRace]_vars

(***************************************************************************)
(* create_sample_data of startup.py, served by POST /sample-data/create   *)
(* and run at start-up in development mode.  Of the nine sample plants the *)
(* model keeps one, Peak Gas CT of utility_1.  The operator's budget and   *)
(* equity of 10^10 are not read by any handler and are left out of its row.*)
(***************************************************************************)
OperatorId == "operator_1"

SampleUtilityBudgets ==
    [u \in {"utility_1", "utility_2", "utility_3"} |->
        CASE u = "utility_1" -> 2000000000
          [] u = "utility_2" -> 1500000000
          [] u = "utility_3" -> 1800000000]

SampleEndYear == 2035

\* "Create sample operator", "Create sample utilities with realistic budgets"
SampleUsers ==
    [u \in {OperatorId} \cup DOMAIN SampleUtilityBudgets |->
        IF u = OperatorId
        THEN [user_type |-> "operator"]
        ELSE [user_type |-> "utility",
              budget |-> SampleUtilityBudgets[u],
              debt |-> 0,
              equity |-> SampleUtilityBudgets[u]]]

\* "Create diverse sample power plants"
SamplePlants ==
    { DBPowerPlant("plant_peak_gas_ct", "utility_1", GameId,
                   PlantRequest("natural_gas_ct", 150, 2022, 2025, 2045)) }

\* sum(plant.capital_cost_total for plant in plants)
RECURSIVE TotalInvested(_)
TotalInvested(some_plants) ==
    IF some_plants = {} THEN 0
    ELSE LET plant == CHOOSE p \in some_plants : TRUE
         IN  plant.capital_cost_total + TotalInvested(some_plants \ {plant})

\* "Update financial position (70% debt, 30% equity financing)"
SampleFinancialPosition(utility, total_invested) ==
    [utility EXCEPT
        !.debt = (total_invested \div 10) * 7,
        !.budget = @ - (total_invested \div 10) * 3,
        !.equity = @ - (total_invested \div 10) * 3]

\* "Update utility budgets to reflect existing investments": every user of
\* type utility, with its plants in the sample session.
UsersAfterSampleData(all_users, all_plants) ==
    [u \in DOMAIN all_users |->
        IF all_users[u].user_type = "utility"
        THEN SampleFinancialPosition(
                all_users[u],
                TotalInvested({p \in all_plants :
                                 /\ p.utility_id = u
                                 /\ p.game_session_id = GameId}))
        ELSE all_users[u]]

create_sample_data ==
    \/ /\ OperatorId \in DOMAIN users
       /\ response' = Reply("create_sample_data", GameId, HTTP_OK)
       /\ UNCHANGED <<sessions, plants, bids, users, results, closed, accepted,
                      inflight>>
    \/ /\ OperatorId \notin DOMAIN users
       /\ sessions' =
            [s \in DOMAIN sessions \cup {GameId} |->
                IF s = GameId
                THEN DBGameSession(StartYear, SampleEndYear)
                ELSE sessions[s]]
       /\ plants' = plants \cup SamplePlants
       /\ users' =
            UsersAfterSampleData(
                [u \in DOMAIN users \cup DOMAIN SampleUsers |->
                    IF u \in DOMAIN SampleUsers
                    THEN SampleUsers[u]
                    ELSE users[u]],
                plants \cup SamplePlants)
       /\ response' = Reply("create_sample_data", GameId, HTTP_OK)
       /\ UNCHANGED <<bids, results, closed, accepted, inflight>>

\* uuid4() of create_user: an identifier no sample user has.
UserUuids == {"user_1"}

SampleSessionIds == SessionUuids \cup {GameId}

SamplePlantRequests ==
    { PlantRequest("natural_gas_ct", 100, 2025, 2026, 2030),
      PlantRequest("solar", 600, 2024, 2025, 2030),
      PlantRequest("not_a_type", 100, 2024, 2025, 2030) }

\* A database in which create_user has stored a utility and
\* create_game_session a session, and the sample data have not been created.
InitSample ==
    /\ sessions = [s \in SessionUuids |-> DBGameSession(StartYear, EndYear)]
    /\ plants = {}
    /\ bids = {}
    /\ users = [u \in UserUuids |-> DBUser("utility")]
    /\ results = {}
    /\ response = Reply(None, None, HTTP_OK)
    /\ closed = {}
    /\ accepted = <<>>
    /\ inflight = [r \in Requests |-> Idle]

NextSample ==
    \/ create_sample_data
    \/ \E session_id \in SessionUuids, plant \in SamplePlantRequests,
          utility_id \in UserUuids :
          create_power_plant(session_id, plant, utility_id)
    \/ \E session_id \in SampleSessionIds :
          advance_year(session_id)

SpecSample == InitSample /\ [][NextSample]_vars

(***************************************************************************)
(* Vocabulary of the properties.                                           *)
(***************************************************************************)
\* The transition graph of a game session.
TransitionGraph ==
    { <<"setup", "year_planning">>,
      <<"year_planning", "bidding_open">>,
      <<"bidding_open", "market_clearing">>,
      <<"market_clearing", "year_complete">>,
      <<"year_complete", "year_planning">>,
      <<"year_complete", "game_complete">> }

BidsOfSession(session_id) == {b \in bids : b.game_session_id = session_id}

BidsOfYear(session_id, year) ==
    {b \in bids : b.game_session_id = session_id /\ b.year = year}

OwnsPlant(utility_id, plant_id, session_id) ==
    \E p \in plants :
        /\ p.id = plant_id
        /\ p.utility_id = utility_id
        /\ p.game_session_id = session_id

NonNegativeBid(b) == \A i \in 1..6 : BidValuesOf(b)[i] >= 0

OperatingIn(p, year) ==
    /\ p.status = "operating"
    /\ p.commissioning_year <= year
    /\ year < p.retirement_year

\* The step just taken served a submit_yearly_bid request.
BidServed == response'.op = "submit_yearly_bid"

\* C1: in every session state other than bidding_open, submit_yearly_bid
\* fails with an error and the stored bids are unchanged.
C1_BidOnlyWhileBiddingOpen ==
    [][ ( /\ BidServed
          /\ response'.session_id \in DOMAIN sessions
          /\ sessions[response'.session_id].state # "bidding_open" )
        => (response'.status # HTTP_OK /\ bids' = bids) ]_vars

\* C2: every change of a session's state follows an edge of the transition
\* graph; a request for any other transition leaves the state unchanged.
C2_StateChangesFollowGraph ==
    [][ \A s \in DOMAIN sessions :
          sessions'[s].state # sessions[s].state
          => <<sessions[s].state, sessions'[s].state>> \in TransitionGraph ]_vars

\* C3: advance_year with current_year = end_year moves the session to
\* game_complete and leaves current_year unchanged.
C3_AdvanceAtEndYearCompletes ==
    [][ \A s \in DOMAIN sessions :
          ( /\ response'.op = "advance_year"
            /\ response'.session_id = s
            /\ sessions[s].current_year = sessions[s].end_year )
          => ( /\ response'.status = HTTP_OK
               /\ sessions'[s].state = "game_complete"
               /\ sessions'[s].current_year = sessions[s].current_year ) ]_vars

\* C3 witness: advance_year has just been served for a session that stands at
\* its end year and is now game_complete.
C3_Witness ==
    /\ response.op = "advance_year"
    /\ response.status = HTTP_OK
    /\ response.session_id \in DOMAIN sessions
    /\ sessions[response.session_id].current_year
         = sessions[response.session_id].end_year
    /\ sessions[response.session_id].state = "game_complete"

\* C4: current_year changes only by advance_year taken in year_complete with
\* current_year < end_year; that step adds exactly 1 and sets year_planning.
C4_YearChangesOnlyFromYearComplete ==
    [][ \A s \in DOMAIN sessions :
          sessions'[s].current_year # sessions[s].current_year
          => ( /\ response'.op = "advance_year"
               /\ sessions[s].state = "year_complete"
               /\ sessions[s].current_year < sessions[s].end_year
               /\ sessions'[s].current_year = sessions[s].current_year + 1
               /\ sessions'[s].state = "year_planning" ) ]_vars

\* C5: game_complete is terminal: once a session is in game_complete no
\* operation changes its state, its current_year or its bids.
C5_GameCompleteIsTerminal ==
    [][ \A s \in DOMAIN sessions :
          sessions[s].state = "game_complete"
          => ( /\ sessions'[s] = sessions[s]
               /\ BidsOfSession(s)' = BidsOfSession(s) ) ]_vars

\* C6: there is at most one stored bid per (session, plant, year), and its
\* six values are those of the most recent accepted submission for that key.
C6_OneBidPerKeyLastWriteWins ==
    /\ \A b1, b2 \in bids : BidKey(b1) = BidKey(b2) => b1 = b2
    /\ \A b \in bids :
          /\ BidKey(b) \in DOMAIN accepted
          /\ BidValuesOf(b) = accepted[BidKey(b)]
    /\ \A k \in DOMAIN accepted : \E b \in bids : BidKey(b) = k

\* C6 witness: a re-submission has just replaced the values of a stored bid
\* by different ones.
C6_Witness ==
    /\ response.op = "submit_yearly_bid"
    /\ response.status = HTTP_OK
    /\ response.replaced # NoBid
    /\ \E b \in bids :
          /\ b.id = response.bid_id
          /\ BidValuesOf(b) # response.replaced

\* C7: once bidding_open -> market_clearing has happened for year Y, the
\* stored bids for year Y never change again.
C7_ClosedYearBidsFrozen ==
    [][ \A c \in closed :
          BidsOfYear(c[1], c[2])' = BidsOfYear(c[1], c[2]) ]_vars

\* C8: a bid submitted by a utility for a plant it does not own in that
\* session (or that does not exist) is rejected with an error, and no bid is
\* created or modified.
C8_ForeignPlantBidRejected ==
    [][ ( /\ BidServed
          /\ ~OwnsPlant(response'.utility_id, response'.plant_id,
                        response'.session_id) )
        => (response'.status # HTTP_OK /\ bids' = bids) ]_vars

\* C8 witness: a utility has just been refused a bid for a plant of another
\* utility that has a stored bid.
C8_Witness ==
    /\ response.op = "submit_yearly_bid"
    /\ response.status = HTTP_NOT_FOUND
    /\ response.session_id = GameId
    /\ \E p \in plants :
          /\ p.id = response.plant_id
          /\ p.utility_id # response.utility_id
    /\ \E b \in bids : b.plant_id = response.plant_id

\* C9: a bid with a negative quantity or price is rejected and nothing is
\* stored, hence every stored bid has all quantities and prices >= 0.
C9_StoredBidsNonNegative == \A b \in bids : NonNegativeBid(b)

\* C10: a bid for a plant that is not operating in the bid year is rejected
\* and nothing is stored, hence every stored bid is for a plant that operates
\* in the year of the bid.
C10_StoredBidsForOperatingPlants ==
    \A b \in bids :
        \E p \in plants : p.id = b.plant_id /\ OperatingIn(p, b.year)

(***************************************************************************)
(* Properties of the ledger, the plants and session creation.              *)
(***************************************************************************)
\* The step just taken served a create_power_plant request that stored a plant.
PlantStored ==
    /\ response'.op = "create_power_plant"
    /\ response'.status = HTTP_OK

\* The plant a PlantStored step has added.
StoredPlant == CHOOSE p \in plants' : p \notin plants

ExpectedStatusHolds(p, current_year) ==
    /\ current_year < p.commissioning_year => p.status = "under_construction"
    /\ (p.commissioning_year <= current_year /\ current_year < p.retirement_year)
          => p.status = "operating"
    /\ current_year > p.retirement_year => p.status = "retired"

\* C11: committing capital A for a utility, as done when a plant is created,
\* decreases its budget by 30% of A, decreases its equity by 30% of A and
\* increases its debt by 70% of A.
C11_CapitalPostedThirtySeventy ==
    [][ \A u \in DOMAIN users :
          (PlantStored /\ response'.utility_id = u)
          => LET A == StoredPlant.capital_cost_total
             IN  /\ users'[u].budget = users[u].budget - (A \div 10) * 3
                 /\ users'[u].equity = users[u].equity - (A \div 10) * 3
                 /\ users'[u].debt = users[u].debt + (A \div 10) * 7 ]_vars

\* C12: create_power_plant for a utility id or a session id that does not
\* exist fails and creates no plant.
C12_UnknownOwnerOrSessionRejected ==
    [][ ( /\ response'.op = "create_power_plant"
          /\ \/ response'.utility_id \notin DOMAIN users
             \/ response'.session_id \notin DOMAIN sessions )
        => (response'.status # HTTP_OK /\ plants' = plants) ]_vars

\* C13: every plant satisfies
\* construction_start_year < commissioning_year < retirement_year.
C13_PlantYearsOrdered ==
    \A p \in plants :
        /\ p.construction_start_year < p.commissioning_year
        /\ p.commissioning_year < p.retirement_year

\* C14: each plant's status is the function of its session's current_year and
\* the plant's years: under_construction before commissioning, operating from
\* commissioning until retirement, retired past retirement.  Stated of the
\* plants whose years are in order and whose session exists.
C14_StatusFollowsCurrentYear ==
    \A p \in plants :
        ( /\ p.game_session_id \in DOMAIN sessions
          /\ p.construction_start_year < p.commissioning_year
          /\ p.commissioning_year < p.retirement_year )
        => ExpectedStatusHolds(p, sessions[p.game_session_id].current_year)

\* C15: plants are created only while the session is in year_planning or
\* bidding_open, and no plant and no bid is ever deleted.
C15_PlantsOnlyWhilePlanningOrBidding ==
    [][ /\ plants' # plants
           => /\ response'.session_id \in DOMAIN sessions
              /\ sessions[response'.session_id].state
                    \in {"year_planning", "bidding_open"}
        /\ {p.id : p \in plants} \subseteq {p.id : p \in plants'}
        /\ {b.id : b \in bids} \subseteq {b.id : b \in bids'} ]_vars

\* C16: a newly created session is in state setup with current_year =
\* start_year, and the state and year of a session change only by an
\* update_game_state or advance_year request served for that session.
C16_NewSessionInSetupAndOperatorDriven ==
    [][ \A s \in DOMAIN sessions' :
          /\ s \notin DOMAIN sessions
             => /\ response'.op = "create_game_session"
                /\ response'.session_id = s
                /\ sessions'[s].state = "setup"
                /\ sessions'[s].current_year = sessions'[s].start_year
          /\ ( /\ s \in DOMAIN sessions
               /\ \/ sessions'[s].state # sessions[s].state
                  \/ sessions'[s].current_year # sessions[s].current_year )
             => /\ response'.op \in {"update_game_state", "advance_year"}
                /\ response'.session_id = s
                /\ response'.status = HTTP_OK ]_vars

\* C16 witness: a session has just been created with a start year other than
\* the column default and stands in setup at that year.
C16_Witness ==
    /\ response.op = "create_game_session"
    /\ response.session_id \in DOMAIN sessions
    /\ sessions[response.session_id].start_year # StartYear
    /\ sessions[response.session_id].current_year
         = sessions[response.session_id].start_year
    /\ sessions[response.session_id].state = "setup"

(***************************************************************************)
(* Fuel prices and demand                                                  *)
(***************************************************************************)
FuelPricesServed ==
    response.op = "get_fuel_prices" /\ response.status = HTTP_OK

EconomicsServed ==
    response.op = "get_plant_economics" /\ response.status = HTTP_OK

DashboardServed ==
    response.op = "get_game_dashboard" /\ response.status = HTTP_OK

\* price * 1.02^n, one year at a time.
RECURSIVE Compounded(_, _)
Compounded(price, n) ==
    IF n = 0 THEN price
    ELSE IF n > 0 THEN Times(Compounded(price, n - 1), <<51, 50>>)
    ELSE Times(Compounded(price, n + 1), <<50, 51>>)

\* What a served fuel-price lookup returns: for a year the schedule lacks,
\* the prices of the schedule's latest year compounded at 2% over the gap;
\* for a year the schedule has, each scheduled price as it is.  The reply is
\* a function of the schedule and the year alone.
FuelLookupFollowsSchedule ==
    FuelPricesServed =>
        LET schedule == sessions[response.session_id].fuel_prices
            year == response.year
            returned == response.body.fuel_prices
        IN  /\ year \notin DOMAIN schedule =>
                \E latest \in DOMAIN schedule :
                    /\ \A y \in DOMAIN schedule : y <= latest
                    /\ DOMAIN returned = DOMAIN schedule[latest]
                    /\ \A fuel \in DOMAIN returned :
                          returned[fuel] =
                            Compounded(Whole(schedule[latest][fuel]),
                                       year - latest)
            /\ year \in DOMAIN schedule =>
                \A fuel \in DOMAIN schedule[year] :
                    returned[fuel] = Whole(schedule[year][fuel])

\* The example: the schedule {2025: 3.00} asked for 2027.
FuelLookupExampleGives(price) ==
    ( /\ FuelPricesServed
      /\ sessions[response.session_id].fuel_prices = DEFAULT_FUEL_PRICES
      /\ response.year = 2027 )
    => response.body.fuel_prices["natural_gas"] = price

\* C17, as stated: the fuel-price lookup extrapolates a missing year from the
\* latest scheduled year at 2% a year, returns a scheduled year unchanged,
\* and the schedule {2025: 3.00} asked for 2027 gives 3.0612.
C17_FuelLookupAsStated ==
    /\ FuelLookupFollowsSchedule
    /\ FuelLookupExampleGives(Fraction(30612, 10000))

\* C17, amended: the fuel-price lookup extrapolates a missing year from the
\* latest scheduled year at 2% a year, returns a scheduled year unchanged,
\* and the schedule {2025: 3.00} asked for 2027 gives 3.00 * 1.0404 = 3.1212.
C17_FuelLookupExtrapolates ==
    /\ FuelLookupFollowsSchedule
    /\ FuelLookupExampleGives(Fraction(31212, 10000))

C17_Witness ==
    /\ FuelPricesServed
    /\ sessions[response.session_id].fuel_prices = DEFAULT_FUEL_PRICES
    /\ response.year = 2027
    /\ response.body.fuel_prices["natural_gas"] = <<7803, 2500>>

\* C18: for every year, the fuel price that get_plant_economics uses for a
\* plant is the price get_fuel_prices returns for that year.
C18_EconomicsUsesLookupPrices ==
    EconomicsServed =>
        \A p \in PlantOfSession(response.session_id, response.plant_id) :
            response.body.fuel_costs =
                FuelCosts(p, YearPrices(sessions[response.session_id],
                                        response.year))

\* demand_for_year: the base demand at the base year, and (1 + growth_rate)
\* times the demand of the year before at every later year.
RECURSIVE DemandForYear(_, _, _, _)
DemandForYear(base_demand, growth_rate, base_year, year) ==
    IF year <= base_year
    THEN Whole(base_demand)
    ELSE Times(DemandForYear(base_demand, growth_rate, base_year, year - 1),
               Fraction(100 + growth_rate, 100))

\* C19: the demand the dashboard reports for each period is the base demand
\* times (1 + growth_rate)^(year - base_year), whatever number of year
\* advances led to that year: the base demand at the base year, the base
\* demand times (1 + growth_rate) one year later.
C19_DemandIsPureFunctionOfYear ==
    DashboardServed =>
        LET session == sessions[response.session_id]
            profile == session.demand_profile
            reported == response.body.current_demands
            Derived(base_demand, year) ==
                DemandForYear(base_demand, profile.demand_growth_rate,
                              session.start_year, year)
        IN  /\ reported.off_peak =
                 Derived(profile.off_peak_demand, session.current_year)
            /\ reported.shoulder =
                 Derived(profile.shoulder_demand, session.current_year)
            /\ reported.peak =
                 Derived(profile.peak_demand, session.current_year)
            /\ session.current_year = session.start_year =>
                 reported.peak = Whole(profile.peak_demand)
            /\ session.current_year = session.start_year + 1 =>
                 reported.peak =
                    Fraction(profile.peak_demand
                                * (100 + profile.demand_growth_rate), 100)

C19_Witness ==
    /\ DashboardServed
    /\ sessions[response.session_id].demand_profile = AnnualDemandProfile
    /\ sessions[response.session_id].current_year =
          sessions[response.session_id].start_year + 2
    /\ response.body.current_demands.peak = <<5202, 5>>

(***************************************************************************)
(* Market clearing                                                         *)
(***************************************************************************)
ClearingServed ==
    response.op = "clear_annual_markets" /\ response.status = HTTP_OK

ResultsOf(session_id, year, period) ==
    {r \in results :
        /\ r.game_session_id = session_id
        /\ r.year = year
        /\ r.period = period}

RECURSIVE SumOfQuantities(_)
SumOfQuantities(offers) ==
    IF offers = {} THEN 0
    ELSE LET o == CHOOSE x \in offers : TRUE
         IN  o.quantity + SumOfQuantities(offers \ {o})

\* x <= y for fractions with positive denominators.
AtMost(x, y) == x[1] * y[2] <= y[1] * x[2]

\* C20: for every period, the cleared quantity of a clearing is the smaller
\* of the demand and the sum of the offered quantities: exactly the demand
\* when supply is sufficient, and never more than what was offered.
C20_ClearedIsMinOfDemandAndSupply ==
    ClearingServed =>
        \A period \in LoadPeriodEnum :
            /\ ResultsOf(response.session_id, response.year, period) # {}
            /\ \A r \in ResultsOf(response.session_id, response.year, period) :
                  LET demand_mw ==
                          DemandMw(sessions[response.session_id],
                                   response.year, period)
                      offered ==
                          Whole(SumOfQuantities(
                              EligibleOffers(response.session_id,
                                             response.year, period)))
                  IN  /\ r.cleared_quantity =
                            IF AtMost(demand_mw, offered)
                            THEN demand_mw ELSE offered
                      /\ AtMost(r.cleared_quantity, offered)

\* The example of the specification is cleared: 150 MW at $0, 400 MW at $45
\* and 200 MW at $85 against 500 MW off peak and 1000 MW at peak.
C20_Witness ==
    /\ ClearingServed
    /\ response.year = 2025
    /\ {BidValuesOf(b) : b \in bids} =
          { <<400, 400, 400, 45, 45, 45>>,
            <<200, 200, 200, 85, 85, 85>>,
            <<150, 150, 150, 0, 0, 0>> }
    /\ \E r \in ResultsOf(response.session_id, 2025, "off_peak") :
          /\ r.cleared_quantity = <<500, 1>>
          /\ r.marginal_plant = "plant_1"
          /\ Len(r.accepted_supply_bids) = 2
    /\ \E r \in ResultsOf(response.session_id, 2025, "peak") :
          /\ r.cleared_quantity = <<750, 1>>
          /\ r.supply_shortfall

\* The bids a clearing of the session and year draws on, read from the bid
\* book and the plants: those of the plants that are operating.
OfferedBids(session_id, year) ==
    {b \in bids :
        /\ b.game_session_id = session_id
        /\ b.year = year
        /\ \E p \in plants :
              /\ p.id = b.plant_id
              /\ p.game_session_id = session_id
              /\ p.status = "operating"}

BidOfId(bid_id) == CHOOSE b \in bids : b.id = bid_id

PriceIn(b, period) ==
    IF period = "off_peak" THEN b.off_peak_price
    ELSE IF period = "shoulder" THEN b.shoulder_price
    ELSE b.peak_price

QuantityIn(b, period) ==
    IF period = "off_peak" THEN b.off_peak_quantity
    ELSE IF period = "shoulder" THEN b.shoulder_quantity
    ELSE b.peak_quantity

\* The rows of the clearing that was served last.
ClearedRows ==
    {r \in results :
        /\ r.game_session_id = response.session_id
        /\ r.year = response.year}

AcceptedIds(r) ==
    {r.accepted_supply_bids[i] : i \in 1..Len(r.accepted_supply_bids)}

\* The price of the i-th accepted offer of a row.
AcceptedPrice(r, i) == PriceIn(BidOfId(r.accepted_supply_bids[i]), r.period)

AcceptedPlant(r, i) == BidOfId(r.accepted_supply_bids[i]).plant_id

\* The quantity offered by the first j accepted offers of a row.
RECURSIVE OfferedByFirst(_, _)
OfferedByFirst(r, j) ==
    IF j = 0 THEN 0
    ELSE OfferedByFirst(r, j - 1)
         + QuantityIn(BidOfId(r.accepted_supply_bids[j]), r.period)

\* C21: when a clearing accepts an offer, the clearing price is the price of
\* the last accepted offer, which is the highest accepted price; the
\* accepted offers are in non-decreasing price order and no rejected offer
\* is cheaper than an accepted one.
C21_PriceIsMarginalAndHighest ==
    ClearingServed =>
        \A r \in ClearedRows :
            LET n == Len(r.accepted_supply_bids)
            IN  n > 0 =>
                /\ r.clearing_price = AcceptedPrice(r, n)
                /\ r.marginal_plant = AcceptedPlant(r, n)
                /\ \A i \in 1..n : AcceptedPrice(r, i) <= r.clearing_price
                /\ \A i \in 1..n : \A j \in i..n :
                      AcceptedPrice(r, i) <= AcceptedPrice(r, j)
                /\ \A b \in OfferedBids(response.session_id, response.year) :
                      b.id \notin AcceptedIds(r) =>
                          \A i \in 1..n :
                              ~(PriceIn(b, r.period) < AcceptedPrice(r, i))

\* A clearing of the example where the marginal offer is not the first one
\* in plant order: 150 MW at $0 and then 350 of 400 MW at $45.
C21_Witness ==
    /\ ClearingServed
    /\ \E r \in ClearedRows :
          /\ r.period = "off_peak"
          /\ Len(r.accepted_supply_bids) = 2
          /\ AcceptedPlant(r, 1) = "plant_3"
          /\ AcceptedPlant(r, 2) = "plant_1"
          /\ r.clearing_price = 45
          /\ \E b \in OfferedBids(response.session_id, response.year) :
                b.id \notin AcceptedIds(r) /\ b.off_peak_price = 85

\* C22: the result of a clearing is fixed by the set of offers alone.  The
\* accepted offers are the offers in strictly ascending order of (price,
\* plant identifier), equal prices going by the smaller plant identifier,
\* taken up to the first offer at which the cumulative quantity reaches the
\* demand; marginal plant and price are those of the last one taken.
C22_ClearingIsDeterminedByOffers ==
    ClearingServed =>
        \A r \in ClearedRows :
            LET n == Len(r.accepted_supply_bids)
                offered == OfferedBids(response.session_id, response.year)
                demand_mw == DemandMw(sessions[response.session_id],
                                      response.year, r.period)
                Before(b, c) ==
                    \/ PriceIn(b, r.period) < PriceIn(c, r.period)
                    \/ /\ PriceIn(b, r.period) = PriceIn(c, r.period)
                       /\ PlantRank(b.plant_id) < PlantRank(c.plant_id)
            IN  /\ AcceptedIds(r) \subseteq {b.id : b \in offered}
                /\ \A i \in 1..n : \A j \in (i + 1)..n :
                      Before(BidOfId(r.accepted_supply_bids[i]),
                             BidOfId(r.accepted_supply_bids[j]))
                /\ \A b \in offered :
                      b.id \notin AcceptedIds(r) =>
                          \A i \in 1..n :
                              Before(BidOfId(r.accepted_supply_bids[i]), b)
                /\ \A j \in 0..(n - 1) :
                      OfferedByFirst(r, j) * demand_mw[2] < demand_mw[1]
                /\ Cardinality(offered) > n =>
                      OfferedByFirst(r, n) * demand_mw[2] >= demand_mw[1]
                /\ n > 0 =>
                      /\ r.marginal_plant = AcceptedPlant(r, n)
                      /\ r.clearing_price = AcceptedPrice(r, n)

\* Two offers at the same price are both accepted, the one of the smaller
\* plant identifier first.
C22_Witness ==
    /\ ClearingServed
    /\ \E r \in ClearedRows :
          /\ r.period = "shoulder"
          /\ Len(r.accepted_supply_bids) = 3
          /\ AcceptedPlant(r, 2) = "plant_1"
          /\ AcceptedPlant(r, 3) = "plant_2"
          /\ AcceptedPrice(r, 2) = AcceptedPrice(r, 3)

C26_ResultsOnlyFromClearingInState ==
    [][ /\ results' # results =>
             /\ response'.op = "clear_annual_markets"
             /\ response'.status = HTTP_OK
             /\ sessions[response'.session_id].state = "market_clearing"
        /\ ( /\ response'.op = "clear_annual_markets"
             /\ response' # response
             /\ response'.session_id \in DOMAIN sessions
             /\ sessions[response'.session_id].state # "market_clearing" )
           => /\ response'.status = HTTP_BAD_REQUEST
              /\ results' = results
      ]_vars

C26_Witness ==
    /\ response.op = "clear_annual_markets"
    /\ response.status = HTTP_BAD_REQUEST
    /\ sessions[response.session_id].state = "bidding_open"
    /\ bids # {}
    /\ results # {}

(***************************************************************************)
(* Sessions                                                                *)
(***************************************************************************)
\* What can be observed of a session: its row, its plants, bids and results,
\* and the ledger of the utilities that own a plant in it.
PlantsOfSession(session_id) ==
    {p \in plants : p.game_session_id = session_id}

UtilitiesOfSession(session_id) ==
    {p.utility_id : p \in PlantsOfSession(session_id)} \cap DOMAIN users

\* C27: a request served for one session changes nothing that can be
\* observed of another session: not its row, plants, bids or results, and
\* not the budget, debt and equity of the utilities that take part in it.
C27_SessionsShareNoState ==
    [][ \A other \in DOMAIN sessions :
            other # response'.session_id =>
                /\ sessions'[other] = sessions[other]
                /\ {p \in plants' : p.game_session_id = other}
                      = PlantsOfSession(other)
                /\ {b \in bids' : b.game_session_id = other}
                      = {b \in bids : b.game_session_id = other}
                /\ {r \in results' : r.game_session_id = other}
                      = {r \in results : r.game_session_id = other}
                /\ \A u \in UtilitiesOfSession(other) : users'[u] = users[u]
      ]_vars

(***************************************************************************)
(* Concurrent requests                                                     *)
(***************************************************************************)
Quiescent == \A r \in Requests : inflight[r] = Idle

\* C28: whatever the interleaving of two submit_yearly_bid requests for the
\* same (session, plant, year), once both are done there is one bid for
\* that key, never two.
C28_ConcurrentSubmitsLeaveOneBid ==
    Quiescent =>
        \A b \in bids, c \in bids : BidKey(b) = BidKey(c) => b = c

RECURSIVE CapitalOf(_)
CapitalOf(owned) ==
    IF owned = {} THEN 0
    ELSE LET p == CHOOSE x \in owned : TRUE
         IN  p.capital_cost_total + CapitalOf(owned \ {p})

\* C29: whatever the interleaving of create_power_plant requests of one
\* utility, once they are done its budget, debt and equity are those of
\* posting every plant it owns, one after another: no posting is lost.
C29_NoPostingLost ==
    Quiescent =>
        \A u \in DOMAIN users :
            LET capital == CapitalOf({p \in plants : p.utility_id = u})
            IN  /\ users[u].budget = DefaultBudget - capital
                /\ users[u].debt = (capital \div 10) * 7
                /\ users[u].equity = DefaultEquity - (capital \div 10) * 3

\* C30: in every session, whatever years it was created with, the current
\* year lies between the start year and the end year.
C30_CurrentYearWithinSessionYears ==
    \A s \in DOMAIN sessions :
        /\ sessions[s].start_year <= sessions[s].current_year
        /\ sessions[s].current_year <= sessions[s].end_year


(***************************************************************************)
(* Termination of the game, the ledger, and failed requests.               *)
(***************************************************************************)
AdvanceServed(s) ==
    /\ response'.op = "advance_year"
    /\ response'.session_id = s
    /\ s \in DOMAIN sessions

\* The number of advance_year operations the session still needs.
AdvancesLeft(session) == session.end_year - session.current_year + 1

\* C31: for a session with start_year <= end_year, every advance_year either
\* uses up one of the end_year - current_year + 1 advances that are left or,
\* when one is left, puts the session in game_complete; current_year never
\* decreases and never passes end_year, so that many advances in a row end in
\* game_complete.
C31_AdvancesTerminateTheGame ==
    /\ [](\A s \in DOMAIN sessions :
            sessions[s].start_year <= sessions[s].end_year
            => AdvancesLeft(sessions[s]) >= 1)
    /\ [][ \A s \in DOMAIN sessions :
            ( /\ AdvanceServed(s)
              /\ sessions[s].start_year <= sessions[s].end_year )
            => ( /\ response'.status = HTTP_OK
                 /\ sessions'[s].current_year >= sessions[s].current_year
                 /\ IF AdvancesLeft(sessions[s]) = 1
                    THEN sessions'[s].state = "game_complete"
                    ELSE AdvancesLeft(sessions'[s])
                           = AdvancesLeft(sessions[s]) - 1 ) ]_vars

\* C31 witness: a session of more than one year has been advanced up to its
\* end year and the last advance_year served has completed it.
C31_Witness ==
    /\ response.op = "advance_year"
    /\ response.status = HTTP_OK
    /\ response.session_id \in DOMAIN sessions
    /\ sessions[response.session_id].start_year
         < sessions[response.session_id].end_year
    /\ sessions[response.session_id].current_year
         = sessions[response.session_id].end_year
    /\ sessions[response.session_id].state = "game_complete"


\* The equity a utility is created with: by create_sample_data, or by
\* create_user.  Every utility is created with no debt.
InitialEquity(u) ==
    IF u \in DOMAIN SampleUtilityBudgets
    THEN SampleUtilityBudgets[u]
    ELSE DefaultEquity

PlantsOfUtility(u) == {p \in plants : p.utility_id = u}

\* C32: each utility's debt is its initial debt plus 70% of the capital cost
\* of all its plants and its equity is its initial equity minus 30% of it,
\* whether the plants come from create_power_plant or create_sample_data.
C32_LedgerConservation ==
    \A u \in DOMAIN users :
       users[u].user_type = "utility"
       => /\ users[u].debt = (CapitalOf(PlantsOfUtility(u)) \div 10) * 7
          /\ users[u].equity
               = InitialEquity(u) - (CapitalOf(PlantsOfUtility(u)) \div 10) * 3


\* C33: create_power_plant never takes a utility's budget below zero: a
\* request that costs more than the budget is rejected and changes nothing.
C33_BudgetNeverNegative ==
    [][ \A u \in DOMAIN users :
          ( /\ users[u].user_type = "utility"
            /\ response'.op = "create_power_plant"
            /\ response'.utility_id = u
            /\ users[u].budget >= 0 )
          => users'[u].budget >= 0 ]_vars


\* C34: a re-submission for an existing (session, plant, year) keeps the
\* bid's id, utility_id, plant_id, year and session, and leaves every other
\* bid and every plant, session and utility as it was.
C34_ResubmissionChangesOnlyTheBidValues ==
    [][ ( /\ BidServed
          /\ response'.status = HTTP_OK
          /\ response'.replaced # NoBid )
        => ( /\ \E old \in bids, new \in bids' :
                   /\ old.id = response'.bid_id
                   /\ new.id = old.id
                   /\ new.utility_id = old.utility_id
                   /\ new.plant_id = old.plant_id
                   /\ new.year = old.year
                   /\ new.game_session_id = old.game_session_id
                   /\ bids' \ {new} = bids \ {old}
             /\ plants' = plants
             /\ sessions' = sessions
             /\ users' = users ) ]_vars

\* C34 witness: a re-submission has just given a stored bid new values while
\* another bid is stored beside it.
C34_Witness ==
    /\ response.op = "submit_yearly_bid"
    /\ response.status = HTTP_OK
    /\ response.replaced # NoBid
    /\ \E b, other \in bids :
          /\ b.id = response.bid_id
          /\ BidValuesOf(b) # response.replaced
          /\ other.id # b.id


\* C35: a request answered with an error for an unknown plant type or for a
\* name that is not a game state changes no plant, ledger or session; no
\* plant is ever stored with an unknown type and no session ever holds a
\* state that is not a game state, so such requests are never served.
C35_FailedRequestChangesNothing ==
    /\ [](/\ \A p \in plants : p.plant_type \in PlantTypeEnum
          /\ \A s \in DOMAIN sessions : sessions[s].state \in GameStateEnum)
    /\ [][ ( /\ response'.op \in {"create_power_plant", "update_game_state"}
              /\ response'.status = HTTP_BAD_REQUEST )
            => ( /\ plants' = plants
                 /\ users' = users
                 /\ sessions' = sessions
                 /\ bids' = bids
                 /\ results' = results ) ]_vars

\* C35 witness: create_power_plant has just answered 400 to a utility whose
\* ledger already carries a plant, in a session that exists.
C35_Witness ==
    /\ response.op = "create_power_plant"
    /\ response.status = HTTP_BAD_REQUEST
    /\ response.session_id \in DOMAIN sessions
    /\ response.utility_id \in DOMAIN users
    /\ users[response.utility_id].debt > 0
    /\ \E p \in plants : p.utility_id = response.utility_id

====
